---- MODULE Spec2Model ----
(***************************************************************************)
(* A model of jtl-rs (src/src/lib.rs): the JTL document parser `parse`,    *)
(* the element parser `parse_element` and the environment extractor        *)
(* `parse_env`.                                                            *)
(*                                                                         *)
(* A string is a sequence of one-character strings, a document is the      *)
(* sequence of its lines (what `text.lines().collect()` yields), a map is  *)
(* a function from key strings to value strings.  Each call of `parse` or  *)
(* `parse_env` is run one iteration of its `for line in lines` loop at a   *)
(* time; the inner loop over the declarations of one line is part of that  *)
(* iteration.                                                              *)
(***************************************************************************)
EXTENDS Integers, Sequences, FiniteSets, TLC

VARIABLES
    lines,        \* the document: text.lines() (lib.rs:9, 134)
    pc,           \* "idle", or the function whose loop is running
    idx,          \* 1-based index of the line the loop reads next
    in_body,      \* parse: let mut in_body (lib.rs:15)
    in_env,       \* parse: let mut in_env (lib.rs:16)
    current_env,  \* parse: let mut current_env (lib.rs:17)
    result,       \* parse: let mut result (lib.rs:8)
    env_map,      \* parse_env: let mut env_map (lib.rs:133)
    in_env_e,     \* parse_env: let mut in_env (lib.rs:140)
    parse_rets,   \* the values returned by the parse calls made so far
    env_rets,     \* the values returned by the parse_env calls made so far
    scanned,      \* history: the declarations the last parse call dispatched
    markers,      \* history: the section markers the last parse call matched
    scanned_e     \* history: the declarations the last parse_env call handled

vars == <<lines, pc, idx, in_body, in_env, current_env, result, env_map, in_env_e,
          parse_rets, env_rets, scanned, markers, scanned_e>>

\* the number of calls a run makes
MaxCalls == 3

----------------------------------------------------------------------------
(* Strings *)

WhiteSpace == {" ", "\t"}

\* the characters the pattern class \w matches, among the ASCII ones
WordChars ==
    {"a", "b", "c", "d", "e", "f", "g", "h", "i", "j", "k", "l", "m",
     "n", "o", "p", "q", "r", "s", "t", "u", "v", "w", "x", "y", "z",
     "A", "B", "C", "D", "E", "F", "G", "H", "I", "J", "K", "L", "M",
     "N", "O", "P", "Q", "R", "S", "T", "U", "V", "W", "X", "Y", "Z",
     "0", "1", "2", "3", "4", "5", "6", "7", "8", "9", "_"}

DOCTYPE == <<"D", "O", "C", "T", "Y", "P", "E", "=", "J", "T", "L">>
ENV_MARKER == <<">", ">", ">", "E", "N", "V", ";">>
BEGIN_MARKER == <<">", ">", ">", "B", "E", "G", "I", "N", ";">>
END_MARKER == <<">", ">", ">", "E", "N", "D", ";">>
BLOCK_OPEN == <<"/", "*">>
BLOCK_CLOSE == <<"*", "/">>
LINE_COMMENT == <<">", "/", "/", ">">>
ENV_PREFIX == <<">", ">", ">">>
ENV_REF == <<"$", "e", "n", "v", ":">>
KEY == <<"K", "E", "Y">>
CONTENT == <<"C", "o", "n", "t", "e", "n", "t">>
CONTENTS == <<"C", "o", "n", "t", "e", "n", "t", "s">>

MISSING_DOCTYPE == "invalid JTL document: missing DOCTYPE"
TOO_SHORT == "invalid element format: too short"
MISSING_PREFIX == "invalid element format: missing '>' prefix"
MISSING_SEPARATOR == "invalid element format: missing separator"
NO_ATTRIBUTES == "invalid element format: no attributes found"
MISSING_CONTENT_SEPARATOR == "invalid element format: missing content separator"
MALFORMED_CONTENT == "invalid element format: malformed content"

\* str::starts_with
StartsWith(s, p) == Len(s) >= Len(p) /\ SubSeq(s, 1, Len(p)) = p

\* str::ends_with
EndsWith(s, p) == Len(s) >= Len(p) /\ SubSeq(s, Len(s) - Len(p) + 1, Len(s)) = p

\* str::contains
Contains(s, p) ==
    \E k \in 1..(Len(s) - Len(p) + 1) : SubSeq(s, k, k + Len(p) - 1) = p

\* the first index >= k of s that holds c (Len(s) + 1 if none)
RECURSIVE IndexFrom(_, _, _)
IndexFrom(s, c, k) == IF k <= Len(s) /\ s[k] # c THEN IndexFrom(s, c, k + 1) ELSE k

\* str::find(char): the 1-based index of the first c in s, 0 when there is none
Find(s, c) == LET k == IndexFrom(s, c, 1) IN IF k > Len(s) THEN 0 ELSE k

\* the first index >= k of s that holds no white space (Len(s) + 1 if none)
RECURSIVE SkipSpace(_, _)
SkipSpace(s, k) == IF k <= Len(s) /\ s[k] \in WhiteSpace THEN SkipSpace(s, k + 1) ELSE k

\* the last index <= k of s that holds no white space (0 if none)
RECURSIVE SkipSpaceBack(_, _)
SkipSpaceBack(s, k) == IF k >= 1 /\ s[k] \in WhiteSpace THEN SkipSpaceBack(s, k - 1) ELSE k

\* str::trim
Trim(s) == SubSeq(s, SkipSpace(s, 1), SkipSpaceBack(s, Len(s)))

\* str::split(char): the pieces between the separators, empty pieces kept
RECURSIVE Split(_, _)
Split(s, c) ==
    LET k == Find(s, c)
    IN IF k = 0 THEN <<s>>
       ELSE <<SubSeq(s, 1, k - 1)>> \o Split(SubSeq(s, k + 1, Len(s)), c)

\* str::splitn(2, char)
Splitn2(s, c) ==
    LET k == Find(s, c)
    IN IF k = 0 THEN <<s>>
       ELSE <<SubSeq(s, 1, k - 1), SubSeq(s, k + 1, Len(s))>>

\* str::trim_start_matches: the prefix is removed as often as it occurs
RECURSIVE TrimStartMatches(_, _)
TrimStartMatches(s, p) ==
    IF StartsWith(s, p) THEN TrimStartMatches(SubSeq(s, Len(p) + 1, Len(s)), p)
    ELSE s

----------------------------------------------------------------------------
(* Maps: HashMap<String, String> and serde_json::Map<String, Value> *)

EmptyMap == [k \in {} |-> <<>>]

\* HashMap::insert / serde_json::Map::insert: a later value replaces an earlier
MapInsert(m, k, v) == [x \in (DOMAIN m) \cup {k} |-> IF x = k THEN v ELSE m[x]]

----------------------------------------------------------------------------
(* The attribute pattern (\w+)="([^"]+)" of parse_element (lib.rs:86) *)

IsWord(c) == c \in WordChars

\* the first index >= k of s that holds no word character (Len(s) + 1 if none)
RECURSIVE WordEnd(_, _)
WordEnd(s, k) == IF k <= Len(s) /\ IsWord(s[k]) THEN WordEnd(s, k + 1) ELSE k

\* the first index >= k of s that holds a double quote (Len(s) + 1 if none)
QuoteAt(s, k) == IndexFrom(s, "\"", k)

\* The match of the pattern that starts at index p, as the index of its
\* closing quote, or 0.  \w+ must run up to the '=' (no shorter run is
\* followed by '='), and [^"]+ up to the next quote and must not be empty.
MatchAt(s, p) ==
    IF p > Len(s) \/ ~IsWord(s[p]) THEN 0
    ELSE LET j == WordEnd(s, p)
             q == QuoteAt(s, j + 2)
         IN IF /\ j + 1 <= Len(s)
               /\ s[j] = "="
               /\ s[j + 1] = "\""
               /\ q <= Len(s)
               /\ q > j + 2
            THEN q ELSE 0

\* Regex::captures_iter: the leftmost match at or after `from`, then the
\* matches of the text behind it (matches do not overlap)
RECURSIVE CapturesFrom(_, _)
CapturesFrom(s, from) ==
    IF \A p \in from..Len(s) : MatchAt(s, p) = 0 THEN <<>>
    ELSE LET p == CHOOSE x \in from..Len(s) :
                      MatchAt(s, x) # 0 /\ \A y \in from..(x - 1) : MatchAt(s, y) = 0
             q == MatchAt(s, p)
             j == WordEnd(s, p)
         IN <<[key |-> SubSeq(s, p, j - 1), value |-> SubSeq(s, j + 2, q - 1)]>>
            \o CapturesFrom(s, q + 1)

\* the matches of the text before the first '>' only
CapturesHead(s) ==
    CapturesFrom(SubSeq(s, 1, IF Find(s, ">") = 0 THEN Len(s) ELSE Find(s, ">") - 1), 1)

\* lib.rs:87: the matches of the whole stripped declaration
Captures(s) == CapturesFrom(s, 1)

\* the loop over the captures (lib.rs:93-97): each inserts key -> value
RECURSIVE InsertCaptures(_, _, _)
InsertCaptures(m, caps, k) ==
    IF k > Len(caps) THEN m
    ELSE InsertCaptures(MapInsert(m, caps[k].key, caps[k].value), caps, k + 1)

----------------------------------------------------------------------------
(* Result<T, Box<dyn Error>> *)

Ok(v) == [ok |-> TRUE, val |-> v]
Err(e) == [ok |-> FALSE, err |-> e]

----------------------------------------------------------------------------
(* parse_element (lib.rs:77-129) *)

\* lib.rs:118-123: the variable named by a content that starts with $env:
EnvVarOf(content) == TrimStartMatches(content, ENV_REF)

\* lib.rs:118-123
ResolveContent(content, env) ==
    IF StartsWith(content, ENV_REF)
    THEN LET env_var == EnvVarOf(content)
         IN IF env_var \in DOMAIN env THEN env[env_var] ELSE content
    ELSE content

\* lib.rs:103-108: the text behind the first '>' of the stripped line, less
\* one trailing ';'
ContentPart(line) ==
    LET content_start == Find(line, ">")
        rest == SubSeq(line, content_start + 1, Len(line))
    IN IF EndsWith(rest, <<";">>) THEN SubSeq(rest, 1, Len(rest) - 1) ELSE rest

\* reserved keys that leave an attribute of the same name in place
InsertReservedKeep(m, id, content) ==
    LET put(mm, k, v) == IF k \in DOMAIN mm THEN mm ELSE MapInsert(mm, k, v)
    IN put(put(put(m, KEY, id), CONTENT, content), CONTENTS, content)

\* lib.rs:124-126
InsertReserved(m, id, content) ==
    MapInsert(MapInsert(MapInsert(m, KEY, id), CONTENT, content), CONTENTS, content)

parse_element(decl, env) ==
    IF ~StartsWith(decl, <<">">>) THEN Err(MISSING_PREFIX)
    ELSE LET line == SubSeq(decl, 2, Len(decl))
         IN IF ~Contains(line, <<">">>) THEN Err(MISSING_SEPARATOR)
            ELSE LET captures == Captures(line)
                 IN IF captures = <<>> THEN Err(NO_ATTRIBUTES)
                    ELSE LET element_map == InsertCaptures(EmptyMap, captures, 1)
                             parts == Splitn2(ContentPart(line), ">")
                         IN IF Find(line, ">") = 0
                            THEN Err(MISSING_CONTENT_SEPARATOR)
                            ELSE IF Len(parts) # 2 \/ parts[1] = <<>> \/ parts[2] = <<>>
                            THEN Err(MALFORMED_CONTENT)
                            ELSE Ok(InsertReserved(element_map, parts[1],
                                                   ResolveContent(parts[2], env)))

----------------------------------------------------------------------------
(* The scan shared by parse and parse_env *)

\* a doctype accepted on any line of the document
DoctypeAnyLine(ls) == \E k \in 1..Len(ls) : Contains(ls[k], DOCTYPE)

\* lib.rs:11, 136
DoctypeOk(ls) == Len(ls) > 0 /\ Contains(ls[1], DOCTYPE)

\* a marker matched at the head of a line that holds more
LineHolds(line, marker) == StartsWith(line, marker)

\* lib.rs:29, 33, 38, 151, 155: a marker is matched against the whole trimmed line
LineIs(line, marker) == line = marker

\* a scan that does not skip the lines that start with >//>
IsSkippedLineNoLineComment(line) ==
    \/ line = <<>>
    \/ StartsWith(line, BLOCK_OPEN)
    \/ StartsWith(line, BLOCK_CLOSE)

\* lib.rs:21-27, 143-149: a blank line or one of the three comment forms
IsSkippedLine(line) ==
    \/ line = <<>>
    \/ StartsWith(line, BLOCK_OPEN)
    \/ StartsWith(line, BLOCK_CLOSE)
    \/ StartsWith(line, LINE_COMMENT)

\* a scan that also skips the lines of a region a /* line has opened and no
\* */ line has closed yet
SkipsRegion(ls, k) ==
    \/ IsSkippedLine(Trim(ls[k]))
    \/ \E i \in 1..(k - 1) :
           /\ StartsWith(Trim(ls[i]), BLOCK_OPEN)
           /\ \A j \in (i + 1)..(k - 1) : ~StartsWith(Trim(ls[j]), BLOCK_CLOSE)

\* lib.rs:20-27, 142-149: the k-th line is skipped for what it holds itself
Skips(ls, k) == IsSkippedLine(Trim(ls[k]))

\* a binding that keeps the value a name already has
EnvBindFirst(env, content) ==
    LET eq_index == Find(content, "=")
        var_name == Trim(SubSeq(content, 1, eq_index - 1))
    IN IF eq_index = 0 \/ var_name \in DOMAIN env THEN env
       ELSE MapInsert(env, var_name, Trim(SubSeq(content, eq_index + 1, Len(content))))

\* lib.rs:52-57, 164-169: `content` is the declaration behind its >>> prefix
EnvBind(env, content) ==
    LET eq_index == Find(content, "=")
    IN IF eq_index = 0 THEN env
       ELSE MapInsert(env,
                      Trim(SubSeq(content, 1, eq_index - 1)),
                      Trim(SubSeq(content, eq_index + 1, Len(content))))

----------------------------------------------------------------------------
(* parse (lib.rs:7-69) *)

MIN_ELEMENT_LEN == 5

\* a result that keeps the records of the call before
NewResultStale == result

\* lib.rs:8
NewResult == <<>>

\* lib.rs:17
NewEnv == EmptyMap

\* a body that is open from the first line on
NewInBodyOpen == TRUE

\* lib.rs:15
NewInBody == FALSE

\* lib.rs:16
NewInEnv == FALSE

\* a body left open at the end of the input taken as an error
ParseValueUnterminated(inBody, res) ==
    IF inBody THEN Err("invalid JTL document: unterminated body") ELSE Ok(res)

\* lib.rs:68: the value of a call whose loop has read every line
ParseValue(inBody, res) == Ok(res)

\* a length check that also rejects a declaration of MIN_ELEMENT_LEN characters
TooShortInclusive(decl) == Len(decl) <= MIN_ELEMENT_LEN

\* a scan without the length check
TooShortNever(decl) == FALSE

\* lib.rs:59
TooShort(decl) == Len(decl) < MIN_ELEMENT_LEN

\* a record put in front of the earlier ones
PushResultFront(res, element_map) == <<element_map>> \o res

\* lib.rs:63
PushResult(res, element_map) == Append(res, element_map)

\* an element error that is dropped, the scan going on
ElementFailureSwallowed(st, e) == st

\* lib.rs:60, 62: the `return Err(..)` and the `?` leave the function
ElementFailure(st, e) == [st EXCEPT !.err = e]

\* lib.rs:46-64: one declaration of the line.  st holds current_env, result,
\* the history of dispatched declarations, and the error that ends the call.
DeclStep(raw, st, inEnv, inBody) ==
    LET decl == Trim(raw)
        st1 == [st EXCEPT !.scanned = Append(@, [decl |-> decl, in_env |-> inEnv,
                                                 in_body |-> inBody, env |-> st.env])]
    IN IF decl = <<>> \/ StartsWith(decl, LINE_COMMENT) THEN st
       ELSE IF inEnv /\ StartsWith(decl, ENV_PREFIX)
       THEN [st1 EXCEPT !.env = EnvBind(@, SubSeq(decl, 4, Len(decl)))]
       ELSE IF inBody /\ StartsWith(decl, <<">">>)
       THEN IF TooShort(decl) THEN ElementFailure(st1, TOO_SHORT)
            ELSE LET r == parse_element(decl, st1.env)
                 IN IF r.ok THEN [st1 EXCEPT !.result = PushResult(@, r.val)]
                    ELSE ElementFailure(st1, r.err)
       ELSE st1

\* lib.rs:44-65: the declarations of one line, left to right, up to a failure
RECURSIVE DeclLoop(_, _, _, _, _)
DeclLoop(declarations, k, st, inEnv, inBody) ==
    IF k > Len(declarations) \/ st.err # "" THEN st
    ELSE DeclLoop(declarations, k + 1,
                  DeclStep(declarations[k], st, inEnv, inBody), inEnv, inBody)

ParseLine == Trim(lines[idx])

ParseLineOutcome ==
    DeclLoop(Split(ParseLine, ";"), 1,
             [env |-> current_env, result |-> result, scanned |-> scanned, err |-> ""],
             in_env, in_body)

\* lib.rs:29-41
IsMarker(line) == \E m \in {ENV_MARKER, BEGIN_MARKER, END_MARKER} : LineIs(line, m)

Mark(name) == Append(markers, [name |-> name, env |-> current_env, result |-> result])

EnvFrame == <<in_env_e, env_map, scanned_e>>
ParseFrame == <<in_body, in_env, current_env, result, scanned, markers>>

\* lib.rs:7-17, with a first line that holds the doctype
CallParse ==
    /\ pc = "idle"
    /\ Len(parse_rets) + Len(env_rets) < MaxCalls
    /\ DoctypeOk(lines)
    /\ pc' = "parse"
    /\ idx' = 1
    /\ result' = NewResult
    /\ in_body' = NewInBody
    /\ in_env' = NewInEnv
    /\ current_env' = NewEnv
    /\ scanned' = <<>>
    /\ markers' = <<>>
    /\ UNCHANGED <<lines, parse_rets, env_rets, EnvFrame>>

\* lib.rs:11-13
CallParseMissingDoctype ==
    /\ pc = "idle"
    /\ Len(parse_rets) + Len(env_rets) < MaxCalls
    /\ ~DoctypeOk(lines)
    /\ parse_rets' = Append(parse_rets, Err(MISSING_DOCTYPE))
    /\ UNCHANGED <<lines, pc, idx, env_rets, ParseFrame, EnvFrame>>

\* lib.rs:20-27
ParseSkipLine ==
    /\ pc = "parse" /\ idx <= Len(lines)
    /\ Skips(lines, idx)
    /\ idx' = idx + 1
    /\ UNCHANGED <<lines, pc, parse_rets, env_rets, ParseFrame, EnvFrame>>

\* lib.rs:29-32
ParseEnvMarker ==
    /\ pc = "parse" /\ idx <= Len(lines)
    /\ ~Skips(lines, idx)
    /\ LineIs(ParseLine, ENV_MARKER)
    /\ in_env' = TRUE
    /\ markers' = Mark("ENV")
    /\ idx' = idx + 1
    /\ UNCHANGED <<lines, pc, parse_rets, env_rets, in_body, current_env, result,
                   scanned, EnvFrame>>

\* lib.rs:33-37
ParseBeginMarker ==
    /\ pc = "parse" /\ idx <= Len(lines)
    /\ ~Skips(lines, idx)
    /\ ~LineIs(ParseLine, ENV_MARKER)
    /\ LineIs(ParseLine, BEGIN_MARKER)
    /\ in_env' = FALSE
    /\ in_body' = TRUE
    /\ markers' = Mark("BEGIN")
    /\ idx' = idx + 1
    /\ UNCHANGED <<lines, pc, parse_rets, env_rets, current_env, result, scanned,
                   EnvFrame>>

\* lib.rs:38-41
ParseEndMarker ==
    /\ pc = "parse" /\ idx <= Len(lines)
    /\ ~Skips(lines, idx)
    /\ ~LineIs(ParseLine, ENV_MARKER) /\ ~LineIs(ParseLine, BEGIN_MARKER)
    /\ LineIs(ParseLine, END_MARKER)
    /\ in_body' = FALSE
    /\ markers' = Mark("END")
    /\ idx' = idx + 1
    /\ UNCHANGED <<lines, pc, parse_rets, env_rets, in_env, current_env, result,
                   scanned, EnvFrame>>

\* lib.rs:44-65, every declaration of the line handled without an error
ParseDeclarations ==
    /\ pc = "parse" /\ idx <= Len(lines)
    /\ ~Skips(lines, idx) /\ ~IsMarker(ParseLine)
    /\ LET out == ParseLineOutcome
       IN /\ out.err = ""
          /\ current_env' = out.env
          /\ result' = out.result
          /\ scanned' = out.scanned
    /\ idx' = idx + 1
    /\ UNCHANGED <<lines, pc, parse_rets, env_rets, in_body, in_env, markers, EnvFrame>>

\* lib.rs:44-65, a declaration of the line fails: parse returns its error
ParseDeclarationsFail ==
    /\ pc = "parse" /\ idx <= Len(lines)
    /\ ~Skips(lines, idx) /\ ~IsMarker(ParseLine)
    /\ LET out == ParseLineOutcome
       IN /\ out.err # ""
          /\ current_env' = out.env
          /\ result' = out.result
          /\ scanned' = out.scanned
          /\ parse_rets' = Append(parse_rets, Err(out.err))
    /\ pc' = "idle"
    /\ UNCHANGED <<lines, idx, env_rets, in_body, in_env, markers, EnvFrame>>

\* lib.rs:68
ParseReturn ==
    /\ pc = "parse" /\ idx > Len(lines)
    /\ parse_rets' = Append(parse_rets, ParseValue(in_body, result))
    /\ pc' = "idle"
    /\ UNCHANGED <<lines, idx, env_rets, ParseFrame, EnvFrame>>

----------------------------------------------------------------------------
(* parse_env (lib.rs:132-176) *)

\* lib.rs:133
NewEnvMap == EmptyMap

\* lib.rs:162-170: one declaration of a line of the ENV section
EnvDeclStep(raw, st) ==
    LET decl == Trim(raw)
        st1 == [st EXCEPT !.scanned = Append(@, [decl |-> decl, env |-> st.env])]
    IN IF StartsWith(decl, ENV_PREFIX)
       THEN [st1 EXCEPT !.env = EnvBind(@, SubSeq(decl, 4, Len(decl)))]
       ELSE st1

\* lib.rs:160-171
RECURSIVE EnvDeclLoop(_, _, _)
EnvDeclLoop(declarations, k, st) ==
    IF k > Len(declarations) THEN st
    ELSE EnvDeclLoop(declarations, k + 1, EnvDeclStep(declarations[k], st))

\* lib.rs:159: the lines whose declarations parse_env looks at
EnvHandlesLine(line, inEnv) == inEnv /\ StartsWith(line, ENV_PREFIX)

EnvLineOutcome ==
    EnvDeclLoop(Split(ParseLine, ";"), 1, [env |-> env_map, scanned |-> scanned_e])

\* lib.rs:132-140, with a first line that holds the doctype; a run calls
\* parse_env at most once, before, between or after its calls of parse
CallParseEnv ==
    /\ pc = "idle"
    /\ Len(parse_rets) + Len(env_rets) < MaxCalls
    /\ env_rets = <<>>
    /\ DoctypeOk(lines)
    /\ pc' = "parse_env"
    /\ idx' = 1
    /\ env_map' = NewEnvMap
    /\ in_env_e' = FALSE
    /\ scanned_e' = <<>>
    /\ UNCHANGED <<lines, parse_rets, env_rets, ParseFrame>>

\* lib.rs:136-138
CallParseEnvMissingDoctype ==
    /\ pc = "idle"
    /\ Len(parse_rets) + Len(env_rets) < MaxCalls
    /\ env_rets = <<>>
    /\ ~DoctypeOk(lines)
    /\ env_rets' = Append(env_rets, Err(MISSING_DOCTYPE))
    /\ UNCHANGED <<lines, pc, idx, parse_rets, ParseFrame, EnvFrame>>

\* lib.rs:142-149
EnvSkipLine ==
    /\ pc = "parse_env" /\ idx <= Len(lines)
    /\ Skips(lines, idx)
    /\ idx' = idx + 1
    /\ UNCHANGED <<lines, pc, parse_rets, env_rets, ParseFrame, EnvFrame>>

\* lib.rs:151-154
EnvEnvMarker ==
    /\ pc = "parse_env" /\ idx <= Len(lines)
    /\ ~Skips(lines, idx)
    /\ LineIs(ParseLine, ENV_MARKER)
    /\ in_env_e' = TRUE
    /\ idx' = idx + 1
    /\ UNCHANGED <<lines, pc, parse_rets, env_rets, ParseFrame, env_map, scanned_e>>

\* lib.rs:155-157 and 175: the break leaves the loop and env_map is returned
EnvBeginMarker ==
    /\ pc = "parse_env" /\ idx <= Len(lines)
    /\ ~Skips(lines, idx)
    /\ ~LineIs(ParseLine, ENV_MARKER)
    /\ LineIs(ParseLine, BEGIN_MARKER)
    /\ env_rets' = Append(env_rets, Ok(env_map))
    /\ pc' = "idle"
    /\ UNCHANGED <<lines, idx, parse_rets, ParseFrame, EnvFrame>>

\* lib.rs:159-172
EnvDeclarations ==
    /\ pc = "parse_env" /\ idx <= Len(lines)
    /\ ~Skips(lines, idx)
    /\ ~LineIs(ParseLine, ENV_MARKER) /\ ~LineIs(ParseLine, BEGIN_MARKER)
    /\ EnvHandlesLine(ParseLine, in_env_e)
    /\ LET out == EnvLineOutcome
       IN /\ env_map' = out.env
          /\ scanned_e' = out.scanned
    /\ idx' = idx + 1
    /\ UNCHANGED <<lines, pc, parse_rets, env_rets, ParseFrame, in_env_e>>

\* lib.rs:159: a line outside the ENV section, or one that does not start
\* with >>>, is passed over whole
EnvIgnoredLine ==
    /\ pc = "parse_env" /\ idx <= Len(lines)
    /\ ~Skips(lines, idx)
    /\ ~LineIs(ParseLine, ENV_MARKER) /\ ~LineIs(ParseLine, BEGIN_MARKER)
    /\ ~EnvHandlesLine(ParseLine, in_env_e)
    /\ idx' = idx + 1
    /\ UNCHANGED <<lines, pc, parse_rets, env_rets, ParseFrame, EnvFrame>>

\* lib.rs:175, the loop having read every line
EnvReturn ==
    /\ pc = "parse_env" /\ idx > Len(lines)
    /\ env_rets' = Append(env_rets, Ok(env_map))
    /\ pc' = "idle"
    /\ UNCHANGED <<lines, idx, parse_rets, ParseFrame, EnvFrame>>

----------------------------------------------------------------------------
(* parse and parse_env as functions of the text: the loops run to their end *)

\* lib.rs:19-66: one iteration of the loop of parse; st holds the locals and
\* the error that has ended the call
ParseLineStep(st, ls, k) ==
    LET line == Trim(ls[k])
    IN IF st.err # "" \/ Skips(ls, k) THEN st
       ELSE IF LineIs(line, ENV_MARKER) THEN [st EXCEPT !.in_env = TRUE]
       ELSE IF LineIs(line, BEGIN_MARKER) THEN [st EXCEPT !.in_env = FALSE, !.in_body = TRUE]
       ELSE IF LineIs(line, END_MARKER) THEN [st EXCEPT !.in_body = FALSE]
       ELSE LET out == DeclLoop(Split(line, ";"), 1,
                                [env |-> st.env, result |-> st.result,
                                 scanned |-> <<>>, err |-> ""],
                                st.in_env, st.in_body)
            IN [st EXCEPT !.env = out.env, !.result = out.result, !.err = out.err]

RECURSIVE ParseLines(_, _, _)
ParseLines(ls, k, st) ==
    IF k > Len(ls) THEN st ELSE ParseLines(ls, k + 1, ParseLineStep(st, ls, k))

\* lib.rs:7-69
parse(ls) ==
    IF ~DoctypeOk(ls) THEN Err(MISSING_DOCTYPE)
    ELSE LET st == ParseLines(ls, 1, [in_body |-> NewInBody, in_env |-> NewInEnv,
                                      env |-> NewEnv, result |-> <<>>, err |-> ""])
         IN IF st.err # "" THEN Err(st.err) ELSE ParseValue(st.in_body, st.result)

\* lib.rs:141-173: one iteration of the loop of parse_env; st.done is set by
\* the break at >>>BEGIN;
EnvLineStep(st, ls, k) ==
    LET line == Trim(ls[k])
    IN IF st.done \/ Skips(ls, k) THEN st
       ELSE IF LineIs(line, ENV_MARKER) THEN [st EXCEPT !.in_env = TRUE]
       ELSE IF LineIs(line, BEGIN_MARKER) THEN [st EXCEPT !.done = TRUE]
       ELSE IF EnvHandlesLine(line, st.in_env)
       THEN [st EXCEPT !.env = EnvDeclLoop(Split(line, ";"), 1,
                                           [env |-> st.env, scanned |-> <<>>]).env]
       ELSE st

RECURSIVE EnvLoop(_, _, _)
EnvLoop(ls, k, st) ==
    IF k > Len(ls) THEN st ELSE EnvLoop(ls, k + 1, EnvLineStep(st, ls, k))

\* lib.rs:132-176
parse_env(ls) ==
    IF ~DoctypeOk(ls) THEN Err(MISSING_DOCTYPE)
    ELSE Ok(EnvLoop(ls, 1, [in_env |-> FALSE, env |-> NewEnvMap, done |-> FALSE]).env)

----------------------------------------------------------------------------
(* The documents of the runs *)

\* lines of the document after the first, for the documents built of any lines
MaxLines == 3

\* sections of the document, for the documents built of whole sections
MaxSections == 3

\* lines between >>>ENV; and >>>BEGIN;, for the documents with an ENV section
MaxEnvLines == 2

\* pieces of the content of the element, for the documents with one element
MaxPieces == 3

RECURSIVE SeqsUpTo(_, _)
SeqsUpTo(S, n) ==
    IF n = 0 THEN {<<>>}
    ELSE LET shorter == SeqsUpTo(S, n - 1)
         IN shorter \cup {Append(q, x) : q \in {r \in shorter : Len(r) = n - 1}, x \in S}

RECURSIVE Concat(_)
Concat(ss) == IF ss = <<>> THEN <<>> ELSE Head(ss) \o Concat(Tail(ss))

L_DOCTYPE == DOCTYPE
L_PLAIN == <<"J", "T", "L">>
L_END == <<" ">> \o END_MARKER
L_COMMENT == <<"/", "*", " ">> \o DOCTYPE
L_BIND == <<">", ">", ">", "f", "=", "a">>
\* >k="v">i>$env:f;>n="x">j>b
L_ELEMENT == <<">", "k", "=", "\"", "v", "\"", ">", "i", ">", "$", "e", "n", "v", ":", "f",
               ";", ">", "n", "=", "\"", "x", "\"", ">", "j", ">", "b">>
L_SHORT == <<" ", ">", "a", ";">>

\* >>>f=b;>>>g=a;>>>f=c
L_BIND_TWICE == <<">", ">", ">", "f", "=", "b", ";", ">", ">", ">", "g", "=", "a", ";",
                  ">", ">", ">", "f", "=", "c">>
\* x;>>>f=d
L_BIND_INNER == <<"x", ";", ">", ">", ">", "f", "=", "d">>
L_BIND_NONE == <<">", ">", ">", "f">>
\* >>> g = b=c
L_BIND_SPACED == <<">", ">", ">", " ", "g", " ", "=", " ", "b", "=", "c", " ">>
\* >>>f=a;>>>$env:f=b
L_BIND_REF == <<">", ">", ">", "f", "=", "a", ";",
                ">", ">", ">", "$", "e", "n", "v", ":", "f", "=", "b">>

L_LEN4 == <<">", "a", "b", "c">>
L_LEN5 == <<">", "a", "b", "c", "d">>
\* x; >a>b ;y
L_LEN4_SPACED == <<"x", ";", " ", ">", "a", ">", "b", " ", ";", "y">>
L_NO_ATTRIBUTES == <<">", "a", ">", "b", "c">>

\* >KEY="q" Content="r" k="1" k="2">i>$env:f
L_RESERVED == <<">", "K", "E", "Y", "=", "\"", "q", "\"", " ", "C", "o", "n", "t", "e",
                "n", "t", "=", "\"", "r", "\"", " ", "k", "=", "\"", "1", "\"", " ", "k",
                "=", "\"", "2", "\"", ">", "i", ">", "$", "e", "n", "v", ":", "f">>
\* >a>i>k="v"
L_ATTR_IN_CONTENT == <<">", "a", ">", "i", ">", "k", "=", "\"", "v", "\"">>
\* >a>k="v">c
L_ATTR_IN_ID == <<">", "a", ">", "k", "=", "\"", "v", "\"", ">", "c">>
\* >k="v">i
L_MALFORMED_ONE == <<">", "k", "=", "\"", "v", "\"", ">", "i">>
\* >k="v">>b
L_MALFORMED_ID == <<">", "k", "=", "\"", "v", "\"", ">", ">", "b">>
\* >k="v"
L_NO_SEPARATOR == <<">", "k", "=", "\"", "v", "\"">>
\* >>>h=
L_BIND_EMPTY == <<">", ">", ">", "h", "=">>
\* /*;>>>f=z;>a
L_OPEN == <<"/", "*", ";", ">", ">", ">", "f", "=", "z", ";", ">", "a">>
\* */;>>>f=z;>a
L_CLOSE == <<"*", "/", ";", ">", ">", ">", "f", "=", "z", ";", ">", "a">>
\* >//>;>>>f=z;>a
L_LINE == <<">", "/", "/", ">", ";", ">", ">", ">", "f", "=", "z", ";", ">", "a">>
\* >>>ENV;>>>f=b
L_ENV_MIXED == <<">", ">", ">", "E", "N", "V", ";", ">", ">", ">", "f", "=", "b">>
\* >>>BEGIN;>>>f=b
L_BEGIN_MIXED == <<">", ">", ">", "B", "E", "G", "I", "N", ";", ">", ">", ">", "f", "=",
                   "b">>
\* >>>END;>>>f=b
L_END_MIXED == <<">", ">", ">", "E", "N", "D", ";", ">", ">", ">", "f", "=", "b">>
L_BLANK == <<" ", "\t">>

FirstLines == {L_DOCTYPE, L_PLAIN}
AnyLines == {ENV_MARKER, BEGIN_MARKER, L_END, L_BIND, L_ELEMENT, L_SHORT}
EnvLines == {L_BIND, L_BIND_TWICE, L_BIND_INNER, L_BIND_NONE, L_BIND_SPACED, L_COMMENT}
Pieces == {ENV_REF, <<"f">>, <<"x">>}
EdgeLines == {L_LEN4, L_LEN5, L_LEN4_SPACED, L_NO_ATTRIBUTES, L_RESERVED, L_ATTR_IN_CONTENT,
              L_ATTR_IN_ID, L_MALFORMED_ONE, L_MALFORMED_ID, L_NO_SEPARATOR}
CommentLines == {L_OPEN, L_CLOSE, L_LINE, L_BLANK}
MixedLines == {L_ENV_MIXED, L_BEGIN_MIXED, L_END_MIXED}
InsertedLines == CommentLines \cup MixedLines \cup {L_BIND_EMPTY}

\* >k="v">i>
ELEMENT_HEAD == <<">", "k", "=", "\"", "v", "\"", ">", "i", ">">>

\* documents of any lines in any order
AnyDocs == {<<>>} \cup {<<f>> \o t : f \in FirstLines, t \in SeqsUpTo(AnyLines, MaxLines)}

\* documents with an ENV section of several lines and a BODY section
EnvDocs == {<<f, ENV_MARKER>> \o e \o <<BEGIN_MARKER, L_ELEMENT>> :
                f \in FirstLines, e \in SeqsUpTo(EnvLines, MaxEnvLines)}

\* documents of sections in any order, each a marker with a line behind it
Sections == {<<ENV_MARKER, L_BIND>>, <<BEGIN_MARKER, L_ELEMENT>>,
             <<BEGIN_MARKER, L_SHORT>>, <<L_END, L_COMMENT>>}

SectionDocs == {<<L_DOCTYPE>> \o Concat(c) : c \in SeqsUpTo(Sections, MaxSections)}

\* documents with one line in the BODY section
ElementDocs ==
    {<<L_DOCTYPE, ENV_MARKER, b, BEGIN_MARKER, l, L_END>> :
        b \in {L_BIND, L_BIND_REF},
        l \in {ELEMENT_HEAD \o Concat(c) : c \in SeqsUpTo(Pieces, MaxPieces)} \cup EdgeLines}

\* a document with every section
BaseDoc == <<L_DOCTYPE, ENV_MARKER, L_BIND, BEGIN_MARKER, L_ELEMENT, L_END>>

\* the document with the line l put behind its i-th line
InsertAt(doc, i, l) == SubSeq(doc, 1, i) \o <<l>> \o SubSeq(doc, i + 1, Len(doc))

\* documents with one more line at any place: a comment line, a blank line,
\* a line that holds a marker and a declaration, or a binding of no value
InsertDocs == {InsertAt(BaseDoc, i, l) : i \in 1..Len(BaseDoc), l \in InsertedLines}

\* documents with a /* line and a */ line at any two places
BlockDocs == {InsertAt(InsertAt(BaseDoc, j, L_CLOSE), i, L_OPEN) :
                 i \in 1..Len(BaseDoc), j \in 2..Len(BaseDoc)}

Docs == AnyDocs \cup EnvDocs \cup SectionDocs \cup ElementDocs \cup InsertDocs \cup BlockDocs

----------------------------------------------------------------------------

Init ==
    /\ lines \in Docs
    /\ pc = "idle"
    /\ idx = 0
    /\ in_body = FALSE
    /\ in_env = FALSE
    /\ current_env = EmptyMap
    /\ result = <<>>
    /\ env_map = EmptyMap
    /\ in_env_e = FALSE
    /\ parse_rets = <<>>
    /\ env_rets = <<>>
    /\ scanned = <<>>
    /\ markers = <<>>
    /\ scanned_e = <<>>

Next ==
    \/ CallParse
    \/ CallParseMissingDoctype
    \/ ParseSkipLine
    \/ ParseEnvMarker
    \/ ParseBeginMarker
    \/ ParseEndMarker
    \/ ParseDeclarations
    \/ ParseDeclarationsFail
    \/ ParseReturn
    \/ CallParseEnv
    \/ CallParseEnvMissingDoctype
    \/ EnvSkipLine
    \/ EnvEnvMarker
    \/ EnvBeginMarker
    \/ EnvDeclarations
    \/ EnvIgnoredLine
    \/ EnvReturn

Spec == Init /\ [][Next]_vars

----------------------------------------------------------------------------
(* What the histories say *)

Last(q) == q[Len(q)]

\* the frame of parse holds a call: one that is running or the last one made
ParseStarted == DoctypeOk(lines) /\ (pc = "parse" \/ parse_rets # <<>>)

\* the call the frame of parse holds has returned: Last(parse_rets) is its value
ParseDone == DoctypeOk(lines) /\ pc # "parse" /\ parse_rets # <<>>

\* the frame of parse_env holds a call that has returned
EnvDone == DoctypeOk(lines) /\ pc # "parse_env" /\ env_rets # <<>>

\* a declaration parse took as an environment declaration (lib.rs:51)
IsEnvDecl(e) == e.in_env /\ StartsWith(e.decl, ENV_PREFIX)

\* a declaration parse took as a body declaration (lib.rs:58)
IsBodyDecl(e) == ~IsEnvDecl(e) /\ e.in_body /\ StartsWith(e.decl, <<">">>)

BodyDecls == SelectSeq(scanned, IsBodyDecl)

\* the text of an environment declaration behind >>>, its name and its value
BindText(decl) == SubSeq(decl, 4, Len(decl))
BindName(decl) == Trim(SubSeq(BindText(decl), 1, Find(BindText(decl), "=") - 1))
BindValue(decl) ==
    Trim(SubSeq(BindText(decl), Find(BindText(decl), "=") + 1, Len(BindText(decl))))

\* the positions of log, among the first n, that bind the name
BindingsOf(log, n, name, isEnv(_)) ==
    {p \in 1..n : /\ isEnv(log[p])
                  /\ Find(BindText(log[p].decl), "=") # 0
                  /\ BindName(log[p].decl) = name}

\* the map in which every name bound among the first n entries of log has the
\* value of its last binding
LastWins(log, n, isEnv(_)) ==
    LET names == {BindName(log[p].decl) :
                    p \in {q \in 1..n : isEnv(log[q])
                                        /\ Find(BindText(log[q].decl), "=") # 0}}
    IN [name \in names |->
          LET ps == BindingsOf(log, n, name, isEnv)
              lastp == CHOOSE p \in ps : \A q \in ps : q <= p
          IN BindValue(log[lastp].decl)]

IsEnvDeclE(e) == StartsWith(e.decl, ENV_PREFIX)

\* the id and content pieces of a body declaration that yields a record
IdPiece(decl) == Splitn2(ContentPart(SubSeq(decl, 2, Len(decl))), ">")[1]
ContentPiece(decl) == Splitn2(ContentPart(SubSeq(decl, 2, Len(decl))), ">")[2]

----------------------------------------------------------------------------
(* C1: when the document has no line, or its first line does not contain    *)
(* DOCTYPE=JTL, every call of parse and of parse_env returns the            *)
(* missing-DOCTYPE error, and no line is ever scanned: no loop runs, no     *)
(* declaration is dispatched and no marker matched, whatever the later      *)
(* lines hold.                                                              *)
C1_MissingDoctype ==
    (lines = <<>> \/ ~Contains(lines[1], DOCTYPE)) =>
        /\ \A k \in DOMAIN parse_rets : parse_rets[k] = Err(MISSING_DOCTYPE)
        /\ \A k \in DOMAIN env_rets : env_rets[k] = Err(MISSING_DOCTYPE)
        /\ pc = "idle" /\ idx = 0
        /\ scanned = <<>> /\ markers = <<>> /\ scanned_e = <<>>
        /\ result = <<>> /\ current_env = EmptyMap /\ env_map = EmptyMap

\* both functions have been called on a document whose first line lacks the
\* doctype and which has the doctype, a marker and declarations further down
C1_Witness ==
    /\ Len(lines) > 2
    /\ ~Contains(lines[1], DOCTYPE)
    /\ \E k \in 2..Len(lines) : Contains(lines[k], DOCTYPE)
    /\ \E k \in 2..Len(lines) : lines[k] = ENV_MARKER
    /\ parse_rets # <<>>
    /\ env_rets # <<>>

(* C2: when parse returns Ok, the sequence it returns has one record for    *)
(* each body declaration it scanned (a declaration beginning with '>' met   *)
(* while in_body is set and not taken as an environment declaration), in    *)
(* the order of the scan, the i-th record being the one parse_element       *)
(* builds from the i-th of them; nothing else adds a record.                *)
C2_OneRecordPerBodyDecl ==
    (ParseDone /\ Last(parse_rets).ok) =>
        LET records == Last(parse_rets).val
        IN /\ Len(records) = Len(BodyDecls)
           /\ \A i \in 1..Len(records) :
                  /\ parse_element(BodyDecls[i].decl, BodyDecls[i].env).ok
                  /\ records[i] = parse_element(BodyDecls[i].decl, BodyDecls[i].env).val

\* parse has returned two different records, of two declarations of one line,
\* from a document that also holds three markers, an environment declaration
\* and a comment line
C2_Witness ==
    /\ ParseDone /\ Last(parse_rets).ok
    /\ Len(Last(parse_rets).val) >= 2
    /\ Last(parse_rets).val[1] # Last(parse_rets).val[2]
    /\ \E p \in 1..Len(scanned) : IsEnvDecl(scanned[p])
    /\ \E k \in 1..Len(lines) : IsSkippedLine(Trim(lines[k]))
    /\ Len(markers) >= 3

(* C3 (as claimed): the content piece of a body declaration that starts    *)
(* with $env: names, behind that prefix stripped once, a variable N; the    *)
(* record's Content and Contents are the value of N where N is bound, and   *)
(* the unchanged piece where it is not; any other piece is copied.          *)
C3_PrefixStrippedOnce ==
    ParseStarted =>
        \A i \in 1..Len(result) :
            LET piece == ContentPiece(BodyDecls[i].decl)
                env == BodyDecls[i].env
                name == SubSeq(piece, Len(ENV_REF) + 1, Len(piece))
                expected == IF StartsWith(piece, ENV_REF) /\ name \in DOMAIN env
                            THEN env[name] ELSE piece
            IN result[i][CONTENT] = expected /\ result[i][CONTENTS] = expected

(* C4: every name bound by the environment declarations scanned so far has  *)
(* the value of the last of them that binds it, in the map of parse at      *)
(* every declaration it dispatches (so in the map a body declaration is     *)
(* resolved against), in the map of parse_env, and in what parse_env        *)
(* returns; names not bound by any are absent.                              *)
C4_LastBindingWins ==
    /\ ParseStarted =>
          /\ current_env = LastWins(scanned, Len(scanned), IsEnvDecl)
          /\ \A p \in 1..Len(scanned) :
                 scanned[p].env = LastWins(scanned, p - 1, IsEnvDecl)
    /\ (DoctypeOk(lines) /\ (pc = "parse_env" \/ env_rets # <<>>)) =>
          env_map = LastWins(scanned_e, Len(scanned_e), IsEnvDeclE)
    /\ EnvDone => Last(env_rets) = Ok(env_map)

\* a name bound three times to different values, another name bound in
\* between; parse resolved $env: of the name to the last value and parse_env
\* returned the last value
C4_Witness ==
    /\ ParseDone /\ Last(parse_rets).ok /\ EnvDone
    /\ \E name \in DOMAIN current_env :
          LET ps == BindingsOf(scanned, Len(scanned), name, IsEnvDecl)
          IN /\ Cardinality({BindValue(scanned[p].decl) : p \in ps}) >= 3
             /\ \E other \in DOMAIN current_env \ {name} :
                   \E q \in BindingsOf(scanned, Len(scanned), other, IsEnvDecl) :
                       \E p1, p2 \in ps : p1 < q /\ q < p2
             /\ \E i \in 1..Len(result) :
                   /\ ContentPiece(BodyDecls[i].decl) = ENV_REF \o name
                   /\ result[i][CONTENT] = current_env[name]
             /\ Last(env_rets).val[name] = current_env[name]
             /\ Cardinality(BindingsOf(scanned_e, Len(scanned_e), name, IsEnvDeclE)) >= 3

(* C5: parse fails fast.  A body declaration that the element parser        *)
(* rejects is the last declaration the call dispatches: the call has        *)
(* returned, what it returned is that declaration's error and holds no      *)
(* record, and every declaration dispatched before it was handled without   *)
(* an error; an error other than the missing doctype is returned in no      *)
(* other way.                                                               *)
DeclError(e) ==
    IF Len(e.decl) < 5 THEN TOO_SHORT
    ELSE IF parse_element(e.decl, e.env).ok THEN ""
    ELSE parse_element(e.decl, e.env).err

DeclFails(e) == IsBodyDecl(e) /\ DeclError(e) # ""

C5_FailFast ==
    ParseStarted =>
        /\ \A p \in 1..(Len(scanned) - 1) : ~DeclFails(scanned[p])
        /\ (scanned # <<>> /\ DeclFails(Last(scanned))) =>
              /\ ParseDone
              /\ Last(parse_rets) = [ok |-> FALSE, err |-> DeclError(Last(scanned))]
        /\ (ParseDone /\ ~Last(parse_rets).ok) =>
              scanned # <<>> /\ DeclFails(Last(scanned))

\* parse returned the error of a declaration that had records before it and
\* lines behind it
C5_Witness ==
    /\ ParseDone
    /\ ~Last(parse_rets).ok
    /\ Len(result) >= 2
    /\ idx < Len(lines)
    /\ \E k \in (idx + 1)..Len(lines) : lines[k] = L_ELEMENT

(* C6: a body declaration (one beginning with '>', met while in_body is    *)
(* set and not taken as an environment declaration) whose trimmed length    *)
(* is below 5 makes parse return the too-short error, and parse returns     *)
(* that error for no declaration of 5 characters or more.                   *)
C6_TooShort ==
    ParseStarted =>
        /\ \A p \in 1..Len(scanned) :
              (IsBodyDecl(scanned[p]) /\ Len(scanned[p].decl) < 5) =>
                  /\ p = Len(scanned)
                  /\ ParseDone
                  /\ Last(parse_rets) = [ok |-> FALSE, err |-> TOO_SHORT]
        /\ (ParseDone /\ Last(parse_rets) = [ok |-> FALSE, err |-> TOO_SHORT]) =>
              /\ scanned # <<>>
              /\ IsBodyDecl(Last(scanned))
              /\ Len(Last(scanned).decl) < 5

\* parse returned the too-short error for a declaration of 4 characters that
\* stands between white space in a line of more than 5
C6_Witness ==
    /\ ParseDone
    /\ Last(parse_rets) = [ok |-> FALSE, err |-> TOO_SHORT]
    /\ Len(Last(scanned).decl) = 4
    /\ Contains(lines[idx], <<" ">> \o Last(scanned).decl \o <<" ">>)

(* C7 (as claimed): once parse has matched >>>END;, the records and the     *)
(* environment stay what they were at that marker, in_body stays unset and  *)
(* the call does not fail.                                                  *)
C7_NothingAfterEnd ==
    ParseStarted =>
        \A k \in 1..Len(markers) :
            markers[k].name = "END" =>
                /\ result = markers[k].result
                /\ current_env = markers[k].env
                /\ ~in_body
                /\ ParseDone => Last(parse_rets).ok

(* C8 (as claimed): once parse has matched >>>BEGIN;, the environment map   *)
(* stays what it was at that marker, and every body declaration is          *)
(* resolved against that map.                                               *)
C8_EnvFrozenAfterBegin ==
    ParseStarted =>
        \A k \in 1..Len(markers) :
            markers[k].name = "BEGIN" =>
                /\ current_env = markers[k].env
                /\ \A i \in 1..Len(BodyDecls) : BodyDecls[i].env = markers[k].env

(* C9 (as claimed): what parse_env returns is the environment map parse     *)
(* holds when it matches the first >>>BEGIN;, or when it returns from a     *)
(* document without that marker.                                            *)
HasBegin == \E k \in 1..Len(markers) : markers[k].name = "BEGIN"

EnvAtBegin ==
    IF HasBegin
    THEN markers[CHOOSE k \in 1..Len(markers) :
                    /\ markers[k].name = "BEGIN"
                    /\ \A j \in 1..(k - 1) : markers[j].name # "BEGIN"].env
    ELSE current_env

C9_SameEnvironment ==
    (EnvDone /\ ParseStarted /\ (HasBegin \/ ParseDone)) =>
        Last(env_rets) = Ok(EnvAtBegin)

(* C10: all the calls of parse on the document return the same value,       *)
(* whatever calls of parse and parse_env were made before and between       *)
(* them.                                                                    *)
C10_Deterministic ==
    \A i, j \in DOMAIN parse_rets : parse_rets[i] = parse_rets[j]

\* parse has returned records twice, with a call of parse_env between the
\* two calls
C10_Witness ==
    /\ Len(parse_rets) >= 2
    /\ parse_rets[1].ok
    /\ Len(parse_rets[1].val) >= 2
    /\ current_env # EmptyMap
    /\ env_rets # <<>>

----------------------------------------------------------------------------
(* The lines of the document, as the claims classify them *)

MarkerLines == {ENV_MARKER, BEGIN_MARKER, END_MARKER}

\* a line whose trimmed form is empty or starts with /*, */ or >//>
IsBlankOrComment(raw) ==
    LET line == Trim(raw)
    IN \/ line = <<>>
       \/ StartsWith(line, <<"/", "*">>)
       \/ StartsWith(line, <<"*", "/">>)
       \/ StartsWith(line, <<">", "/", "/", ">">>)

\* a call of parse, or of parse_env, has just returned or did so before, and
\* none is running
ParseReturned == DoctypeOk(lines) /\ pc = "idle" /\ parse_rets # <<>>
EnvReturned == DoctypeOk(lines) /\ pc = "idle" /\ env_rets # <<>>

HasLine(ls, marker) == \E k \in 1..Len(ls) : Trim(ls[k]) = marker

(* C11: a document with a >>>BEGIN; line and no >>>END; line is no error of *)
(* its own: what parse returns for it is what parse returns for the same    *)
(* document with a >>>END; line appended, a failure of one of its           *)
(* declarations included.                                                   *)
C11_UnterminatedBody ==
    (ParseReturned /\ HasLine(lines, BEGIN_MARKER) /\ ~HasLine(lines, END_MARKER)) =>
        /\ Last(parse_rets) = parse(lines)
        /\ Last(parse_rets) = parse(lines \o <<END_MARKER>>)

\* parse has returned records from a document whose body was still open at
\* its last line
C11_Witness ==
    /\ ParseDone
    /\ HasLine(lines, BEGIN_MARKER) /\ ~HasLine(lines, END_MARKER)
    /\ in_body
    /\ Last(parse_rets).ok
    /\ Len(Last(parse_rets).val) >= 2

(* C12 (as claimed): environment collection and body processing are never   *)
(* active together, both are inactive before the first marker, and the      *)
(* mode does not move back: after >>>BEGIN; the environment collection      *)
(* stays inactive, and after a >>>END; that closed a body both stay         *)
(* inactive.                                                                *)
C12_OneModeForward ==
    ParseStarted =>
        /\ ~(in_env /\ in_body)
        /\ markers = <<>> => (~in_env /\ ~in_body)
        /\ \A k \in 1..Len(markers) :
              /\ markers[k].name = "BEGIN" => ~in_env
              /\ (markers[k].name = "END" /\ \E j \in 1..(k - 1) : markers[j].name = "BEGIN")
                     => (~in_env /\ ~in_body)

(* C13: as long as parse has matched no section marker, no declaration has  *)
(* an effect: the call holds no record and no variable, no declaration was  *)
(* taken as an environment or a body declaration, and a call that returns   *)
(* in that mode returns the empty sequence, no error.                       *)
C13_PreambleIgnored ==
    (ParseStarted /\ markers = <<>>) =>
        /\ result = <<>>
        /\ current_env = EmptyMap
        /\ \A p \in 1..Len(scanned) : ~IsEnvDecl(scanned[p]) /\ ~IsBodyDecl(scanned[p])
        /\ ParseDone => Last(parse_rets) = Ok(<<>>)

\* parse has returned from a document without a marker that holds a '>'
\* declaration of less than 5 characters, one that parse_element accepts and
\* a >>> declaration with '='
C13_Witness ==
    /\ ParseDone
    /\ markers = <<>>
    /\ \E p \in 1..Len(scanned) :
          StartsWith(scanned[p].decl, <<">">>) /\ Len(scanned[p].decl) < MIN_ELEMENT_LEN
    /\ \E p \in 1..Len(scanned) : parse_element(scanned[p].decl, EmptyMap).ok
    /\ \E p \in 1..Len(scanned) :
          StartsWith(scanned[p].decl, ENV_PREFIX) /\ Find(scanned[p].decl, "=") # 0

\* the declaration behind its leading '>'
DeclTail(decl) == SubSeq(decl, 2, Len(decl))

\* the text of s behind its first '>'
BehindFirst(s) == SubSeq(s, Find(s, ">") + 1, Len(s))

\* a name="value" pair stands somewhere in s
HasPair(s) == \E p \in 1..Len(s) : MatchAt(s, p) # 0

\* the value of the last of the matches caps that has the name
LastValue(caps, name) ==
    caps[CHOOSE k \in 1..Len(caps) :
            /\ caps[k].key = name
            /\ \A j \in (k + 1)..Len(caps) : caps[j].key # name].value

(* C14: every record parse returns has the keys KEY, Content and Contents:  *)
(* KEY is the id piece of its declaration, which is not empty, Content and  *)
(* Contents are both the resolved content piece, whatever attributes of     *)
(* those names the declaration has; its other keys are the names of the     *)
(* matched attributes, each with the value of the last match of the name.   *)
C14_ReservedKeys ==
    (ParseReturned /\ Last(parse_rets).ok) =>
        \A i \in 1..Len(Last(parse_rets).val) :
            LET decl == BodyDecls[i].decl
                caps == Captures(DeclTail(decl))
                names == {caps[k].key : k \in 1..Len(caps)}
                reserved == {KEY, CONTENT, CONTENTS}
                rec == Last(parse_rets).val[i]
            IN /\ DOMAIN rec = reserved \cup names
               /\ rec[KEY] = IdPiece(decl) /\ IdPiece(decl) # <<>>
               /\ rec[CONTENT] = ResolveContent(ContentPiece(decl), BodyDecls[i].env)
               /\ rec[CONTENTS] = rec[CONTENT]
               /\ \A name \in names \ reserved : rec[name] = LastValue(caps, name)

\* a record of a declaration with attributes named KEY and Content, whose
\* values are not the id and the content, and with a name matched twice
C14_Witness ==
    /\ ParseReturned /\ Last(parse_rets).ok /\ result = Last(parse_rets).val
    /\ \E i \in 1..Len(result) :
          LET caps == Captures(DeclTail(BodyDecls[i].decl))
          IN /\ \E k \in 1..Len(caps) : caps[k].key = KEY /\ caps[k].value # result[i][KEY]
             /\ \E k \in 1..Len(caps) :
                   caps[k].key = CONTENT /\ caps[k].value # result[i][CONTENT]
             /\ \E j, k \in 1..Len(caps) :
                   /\ j < k /\ caps[j].key = caps[k].key /\ caps[j].value # caps[k].value
                   /\ result[i][caps[k].key] = caps[k].value
             /\ result[i][CONTENT] # ContentPiece(BodyDecls[i].decl)

(* C16: the failure of a body declaration is the first that applies of: too *)
(* short (less than 5 characters), missing separator (no '>' behind the     *)
(* leading one), no attributes (no name="value" pair anywhere behind the    *)
(* leading '>'), malformed content (the text behind the first interior '>'  *)
(* does not split at its first '>' into two pieces that are not empty); a   *)
(* declaration to which none applies yields a record.                       *)
ExpectedError(decl) ==
    LET behind == BehindFirst(DeclTail(decl))
        k == Find(behind, ">")
    IN IF Len(decl) < 5 THEN TOO_SHORT
       ELSE IF Find(DeclTail(decl), ">") = 0 THEN MISSING_SEPARATOR
       ELSE IF ~HasPair(DeclTail(decl)) THEN NO_ATTRIBUTES
       ELSE IF k = 0 \/ k = 1 \/ k = Len(behind) THEN MALFORMED_CONTENT
       ELSE ""

C16_FailureOrder ==
    ParseReturned =>
        /\ \A p \in 1..Len(scanned) :
              (IsBodyDecl(scanned[p]) /\ ExpectedError(scanned[p].decl) # "") =>
                  /\ p = Len(scanned)
                  /\ Last(parse_rets) = Err(ExpectedError(scanned[p].decl))
        /\ Last(parse_rets).ok =>
              Len(Last(parse_rets).val) = Len(BodyDecls)
        /\ ~Last(parse_rets).ok =>
              /\ scanned # <<>> /\ IsBodyDecl(Last(scanned))
              /\ Last(parse_rets).err = ExpectedError(Last(scanned).decl)

\* parse returned the missing-separator error for a declaration that has no
\* attribute either, and whose content is malformed too
C16_Witness ==
    /\ ParseDone
    /\ Last(parse_rets) = Err(MISSING_SEPARATOR)
    /\ ~HasPair(DeclTail(Last(scanned).decl))
    /\ Len(Last(scanned).decl) >= MIN_ELEMENT_LEN

(* C17: the attribute pairs are taken from the whole declaration behind its *)
(* leading '>': a pair that stands behind the first interior '>', in the    *)
(* id or the content piece, is a key of the record (with its value, where   *)
(* it is the last pair of its name and the name is not reserved), and parse *)
(* returns the no-attributes error only for a declaration without any pair. *)
C17_AttributesAnywhere ==
    ParseReturned =>
        /\ Last(parse_rets).ok =>
              \A i \in 1..Len(Last(parse_rets).val) :
                  LET caps == Captures(BehindFirst(DeclTail(BodyDecls[i].decl)))
                      rec == Last(parse_rets).val[i]
                  IN \A k \in 1..Len(caps) :
                        /\ caps[k].key \in DOMAIN rec
                        /\ (/\ caps[k].key \notin {KEY, CONTENT, CONTENTS}
                            /\ \A j \in (k + 1)..Len(caps) : caps[j].key # caps[k].key)
                               => rec[caps[k].key] = caps[k].value
        /\ Last(parse_rets) = Err(NO_ATTRIBUTES) =>
              ~HasPair(DeclTail(Last(scanned).decl))

\* parse has returned a record whose only attribute stands behind the first
\* interior '>' of its declaration, in the id or the content piece
C17_Witness ==
    /\ ParseReturned /\ Last(parse_rets).ok /\ result = Last(parse_rets).val
    /\ \E i \in 1..Len(result) :
          LET decl == BodyDecls[i].decl
          IN /\ ~HasPair(SubSeq(DeclTail(decl), 1, Find(DeclTail(decl), ">")))
             /\ (HasPair(ContentPiece(decl)) \/ HasPair(IdPiece(decl)))
             /\ DOMAIN result[i] = {KEY, CONTENT, CONTENTS, <<"k">>}
             /\ result[i][<<"k">>] = <<"v">>

(* C15: a line whose trimmed form is empty or starts with /*, */ or >//>    *)
(* has no effect, in parse and in parse_env, whatever the mode and whatever *)
(* else the line holds: the loop goes on to the next line with the flags,   *)
(* the environment and the records unchanged, and no call returns.          *)
C15_SkippedLinesNeutral ==
    [][(pc \in {"parse", "parse_env"} /\ idx <= Len(lines) /\ IsBlankOrComment(lines[idx]))
          => /\ pc' = pc
             /\ idx' = idx + 1
             /\ UNCHANGED <<in_body, in_env, current_env, result, in_env_e, env_map,
                            parse_rets, env_rets>>]_vars

\* parse, in its body with two records, has just passed a comment line that
\* holds a >>> declaration with '=' and a '>' declaration of 2 characters
C15_Witness ==
    /\ pc = "parse"
    /\ idx > 1
    /\ IsBlankOrComment(lines[idx - 1])
    /\ Contains(lines[idx - 1], <<";", ">", ">", ">", "f", "=", "z", ";", ">", "a">>)
    /\ in_body /\ ~in_env
    /\ Len(result) = 2

\* a line that is no marker and has a marker among its declarations
HoldsMarkerToken(raw) ==
    LET decls == Split(Trim(raw), ";")
    IN /\ Trim(raw) \notin MarkerLines
       /\ ~IsBlankOrComment(raw)
       /\ \E k \in 1..(Len(decls) - 1) : (Trim(decls[k]) \o <<";">>) \in MarkerLines

ElementErrors == {TOO_SHORT, MISSING_PREFIX, MISSING_SEPARATOR, NO_ATTRIBUTES,
                  MISSING_CONTENT_SEPARATOR, MALFORMED_CONTENT}

(* C19: a line that holds a marker next to another declaration changes no   *)
(* flag and matches no marker, in parse and in parse_env (which does not    *)
(* leave its loop); its declarations are dispatched like any others: with   *)
(* the body open and no environment collection parse returns an element     *)
(* error, with the body not open the line adds no record and the call goes  *)
(* on.                                                                      *)
C19_MarkerWholeLine ==
    [][(pc \in {"parse", "parse_env"} /\ idx <= Len(lines) /\ HoldsMarkerToken(lines[idx]))
          => /\ UNCHANGED <<in_body, in_env, in_env_e, markers>>
             /\ pc = "parse_env" => (pc' = pc /\ env_rets' = env_rets)
             /\ (pc = "parse" /\ in_body /\ ~in_env) =>
                   /\ pc' = "idle"
                   /\ ~Last(parse_rets').ok
                   /\ Last(parse_rets').err \in ElementErrors
             /\ (pc = "parse" /\ ~in_body) =>
                   (pc' = pc /\ result' = result /\ parse_rets' = parse_rets)]_vars

\* parse, its body open with two records, returned the no-attributes error
\* for the declaration >>>END of a line that holds >>>END; and more
C19_Witness ==
    /\ ParseDone
    /\ Last(parse_rets) = Err(NO_ATTRIBUTES)
    /\ Last(scanned).decl \o <<";">> = END_MARKER
    /\ HoldsMarkerToken(lines[idx])
    /\ in_body /\ ~in_env
    /\ Len(result) = 2

\* a line that starts with /* or */
IsBlockLine(raw) ==
    StartsWith(Trim(raw), <<"/", "*">>) \/ StartsWith(Trim(raw), <<"*", "/">>)

IsNoBlockLine(raw) == ~IsBlockLine(raw)

\* the document without the lines behind its first that start with /* or */
WithoutBlockLines(ls) == <<ls[1]>> \o SelectSeq(SubSeq(ls, 2, Len(ls)), IsNoBlockLine)

(* C20: the lines that start with /* and */ open and close nothing: what    *)
(* parse and parse_env return for a document is what they return for the    *)
(* document without those lines, so the markers, environment declarations   *)
(* and body declarations between such lines act as they do without them.    *)
C20_NoCommentRegion ==
    LET without == WithoutBlockLines(lines)
    IN /\ ParseReturned =>
             /\ Last(parse_rets) = parse(lines)
             /\ without # lines => Last(parse_rets) = parse(without)
       /\ EnvReturned =>
             /\ Last(env_rets) = parse_env(lines)
             /\ without # lines => Last(env_rets) = parse_env(without)

\* parse has returned records, resolved against a variable, and parse_env
\* that variable, from a document with a marker, an environment declaration
\* and a body line between a /* line and the next */ line
C20_Witness ==
    /\ ParseDone /\ EnvDone
    /\ Last(parse_rets).ok /\ Last(env_rets).ok
    /\ Len(Last(parse_rets).val) = 2
    /\ Last(parse_rets).val[1][CONTENT] = <<"a">>
    /\ Last(env_rets).val = [n \in {<<"f">>} |-> <<"a">>]
    /\ \E i, j \in 1..Len(lines) :
          /\ i + 4 < j
          /\ StartsWith(lines[i], <<"/", "*">>) /\ StartsWith(lines[j], <<"*", "/">>)
          /\ \A k \in (i + 1)..(j - 1) : ~IsBlockLine(lines[k])
          /\ \E k \in (i + 1)..(j - 1) : lines[k] = L_BIND
          /\ \E k \in (i + 1)..(j - 1) : lines[k] = BEGIN_MARKER
          /\ \E k \in (i + 1)..(j - 1) : lines[k] = L_ELEMENT

\* the map after a >>> declaration, as claimed: the trimmed text before the
\* first '=' bound to the trimmed text behind it, no change without a '='
ExpectedBind(env, decl) ==
    IF Find(BindText(decl), "=") = 0 THEN env
    ELSE MapInsert(env, BindName(decl), BindValue(decl))

RECURSIVE ExpectedBindAll(_, _, _)
ExpectedBindAll(env, decls, k) ==
    IF k > Len(decls) THEN env
    ELSE ExpectedBindAll(ExpectedBind(env, decls[k]), decls, k + 1)

IsEnvText(decl) == StartsWith(decl, <<">", ">", ">">>)

\* the >>> declarations of the lines from k on that stand in Env mode: behind
\* a >>>ENV; line and before the first >>>BEGIN; line
RECURSIVE EnvModeDecls(_, _, _)
EnvModeDecls(ls, k, inEnv) ==
    IF k > Len(ls) \/ Trim(ls[k]) = BEGIN_MARKER THEN <<>>
    ELSE IF IsBlankOrComment(ls[k]) \/ Trim(ls[k]) = END_MARKER
    THEN EnvModeDecls(ls, k + 1, inEnv)
    ELSE IF Trim(ls[k]) = ENV_MARKER THEN EnvModeDecls(ls, k + 1, TRUE)
    ELSE LET pieces == Split(Trim(ls[k]), ";")
             decls == [i \in 1..Len(pieces) |-> Trim(pieces[i])]
         IN (IF inEnv THEN SelectSeq(decls, IsEnvText) ELSE <<>>)
            \o EnvModeDecls(ls, k + 1, inEnv)

(* C18 (as claimed): every >>> declaration parse meets while it collects    *)
(* the environment binds the trimmed text before its first '=' to the       *)
(* trimmed text behind it, or changes nothing when it has no '='; and       *)
(* parse_env does the same with every >>> declaration in Env mode, so that  *)
(* what it returns is the map these declarations make.                      *)
C18_EnvDeclBinding ==
    /\ ParseStarted =>
          \A p \in 1..Len(scanned) :
              IsEnvDecl(scanned[p]) =>
                  (IF p < Len(scanned) THEN scanned[p + 1].env ELSE current_env)
                      = ExpectedBind(scanned[p].env, scanned[p].decl)
    /\ EnvDone =>
          Last(env_rets) = Ok(ExpectedBindAll(EmptyMap, EnvModeDecls(lines, 1, FALSE), 1))

====
